---------------------------- MODULE Spec2Model ----------------------------
(***************************************************************************)
(* A model of the fly-go API client (package api): the process-wide base   *)
(* URL, the client handle, the REST and GraphQL operations, and the        *)
(* whitespace normalisation of request documents.                          *)
(*                                                                         *)
(* One invocation runs at a time.  An operation is split at its single     *)
(* blocking HTTP round trip: the operation's own action builds the request *)
(* and puts it on the wire (pc = "inflight"); Respond draws the server's   *)
(* answer and runs the rest of the operation's body (pc = "returned" with  *)
(* the returned values in ret, or pc = "panicked" on a nil dereference).   *)
(* The caller then takes the result (pc = "ready") and may call again.     *)
(***************************************************************************)
EXTENDS Integers, Sequences, FiniteSets, TLC

\* ------------------------------------------------------------------ bounds

\* Longest query string handed directly to NewRequest.
MaxQueryLen == 4
\* Longest nodes list a response carries.
MaxNodes == 2

\* ------------------------------------------------------------- characters

\* Characters are one-element strings; the named ones are the space classes.
SP == "SP"   \* ' '
HT == "HT"   \* '\t'
LF == "LF"   \* '\n'
VT == "VT"   \* '\v' (U+000B); stands for U+0085 and U+00A0 as well

Chars == {"a", "b", SP, HT, LF, VT}

\* unicode.IsSpace, which strings.TrimSpace cuts by: '\t' '\n' '\v' '\f' '\r'
\* ' ' U+0085 U+00A0 (and the Unicode Z category).
IsSpace(c) == c \in {SP, HT, LF, VT}

\* The class \s of Go's regexp (RE2) syntax: [\t\n\f\r ].  '\v' is not in it.
PerlSpace(c) == c \in {SP, HT, LF}

RECURSIVE TrimLeft(_)
TrimLeft(q) ==
    IF q # <<>> /\ IsSpace(Head(q)) THEN TrimLeft(Tail(q)) ELSE q

RECURSIVE TrimRight(_)
TrimRight(q) ==
    IF q # <<>> /\ IsSpace(q[Len(q)])
    THEN TrimRight(SubSeq(q, 1, Len(q) - 1))
    ELSE q

\* strings.TrimSpace
TrimSpace(q) == TrimRight(TrimLeft(q))

\* The rest of q after the maximal run of \s characters at its head.
RECURSIVE SkipRun(_)
SkipRun(q) ==
    IF q # <<>> /\ PerlSpace(Head(q)) THEN SkipRun(Tail(q)) ELSE q

\* compactPattern.ReplaceAllString(q, " ") with compactPattern = `\s+`:
\* every maximal run of \s characters becomes one ' '.
RECURSIVE ReplaceAllString(_)
ReplaceAllString(q) ==
    IF q = <<>> THEN <<>>
    ELSE IF PerlSpace(Head(q))
         THEN <<SP>> \o ReplaceAllString(SkipRun(Tail(q)))
         ELSE <<Head(q)>> \o ReplaceAllString(Tail(q))

compactQueryString(q) == ReplaceAllString(TrimSpace(q))

\* Every string of at most n characters.
StringsUpTo(n) == UNION {[1 .. k -> Chars] : k \in 0 .. n}

\* The fixed document of an operation: a Go raw string literal that opens
\* with a newline and indentation and closes with a newline; its text is
\* kept as one atom named after the operation.
Document(op) == <<LF, HT, op, LF, HT>>

\* ----------------------------------------------------------------- values

\* A Go pointer (or nullable JSON value): nil, or a reference to v.
Nil == [ptr |-> "nil"]
Ref(v) == [ptr |-> "ok", v |-> v]
IsNil(p) == p.ptr = "nil"

\* The nil error.
NoError == "nil"
\* The package's errors, by name.
ErrNotFound == "ErrNotFound"
ErrUnknown == "ErrUnknown"
ErrNoToken == "No api access token available. Please login"
ErrServer == "An unknown server error occured, please try again"
ErrCredentials == "Incorrect email and password combination"
ErrFromResp == "ErrorFromResp"

\* Errors the HTTP transport or the GraphQL library can return: a network
\* failure, an undecodable body, the first entry of the errors array.
TransportErrors == {"net: connection refused", "decode: bad json", "graphql: denied"}

\* ctx.Err() of a cancelled context, as the transport returns it.
ErrCanceled == "context canceled"

AccessTokens == {"", "t1", "t2"}
BaseURLs == {"", "u1"}

\* fmt.Sprintf of a URL: the base it was formatted from and the path.
URL(base, path) == [base |-> base, path |-> path]
\* An Authorization header "Bearer <token>".
Bearer(token) == [scheme |-> "Bearer", token |-> token]

\* ------------------------------------------------------------------ state

VARIABLES
    baseURL,   \* var baseURL string: the process-wide base URL
    WG_NATS,   \* the process environment's WG_NATS value
    client,    \* the *Client the caller holds: Nil, or Ref of its fields
    pc,        \* "ready" | "inflight" | "returned" | "panicked"
    call,      \* the current (or last) invocation: its operation and arguments
    wire,      \* the HTTP requests this invocation has put on the wire
    reply,     \* the server's answer to this invocation (Nil before it)
    ret,       \* what the invocation returned (Nil before it returns)
    cancelled  \* the caller has cancelled the context.Context it holds

vars == <<baseURL, WG_NATS, client, pc, call, wire, reply, ret, cancelled>>

NoCall == [op |-> "none"]

Init ==
    /\ baseURL = ""
    /\ WG_NATS \in {"", "1"}
    /\ client = Nil
    /\ pc = "ready"
    /\ call = NoCall
    /\ wire = <<>>
    /\ reply = Nil
    /\ ret = Nil
    /\ cancelled = FALSE

\* An invocation that returns without any network call.
Local(c, r) ==
    /\ call' = c
    /\ wire' = <<>>
    /\ reply' = Nil
    /\ ret' = Ref(r)
    /\ pc' = "returned"
    /\ UNCHANGED cancelled

\* ------------------------------------------------- construction, transport

\* func SetBaseURL(url string)
SetBaseURL ==
    /\ pc = "ready"
    /\ \E url \in BaseURLs :
           /\ Local([op |-> "SetBaseURL", url |-> url], [none |-> TRUE])
           /\ baseURL' = url
           /\ UNCHANGED <<WG_NATS, client>>

\* NewClient without its check of the token.
NewClientResultUnchecked(accessToken) ==
    [client |-> Ref([accessToken |-> accessToken,
                     endpoint |-> URL(baseURL, "/api/v2/graphql")]),
     err |-> NoError]

\* The values NewClient returns for an access token.
NewClientResult(accessToken) ==
    IF accessToken = ""
    THEN [client |-> Nil, err |-> ErrNoToken]
    ELSE [client |-> Ref([accessToken |-> accessToken,
                          endpoint |-> URL(baseURL, "/api/v2/graphql")]),
          err |-> NoError]

\* func NewClient(accessToken string) (*Client, error); the caller keeps the
\* client it is given.
NewClient ==
    /\ pc = "ready"
    /\ \E accessToken \in AccessTokens :
           LET r == NewClientResult(accessToken) IN
           /\ Local([op |-> "NewClient", accessToken |-> accessToken], r)
           /\ client' = r.client
           /\ UNCHANGED <<baseURL, WG_NATS>>

\* func (c *Client) NewRequest(q string) *graphql.Request: the request's
\* query string.
NewRequestQuery(q) == compactQueryString(q)

\* NewRequest called on its own with any query string.
NewRequest ==
    /\ pc = "ready"
    /\ ~IsNil(client)
    /\ \E q \in StringsUpTo(MaxQueryLen) :
           Local([op |-> "NewRequest", q |-> q], [q |-> NewRequestQuery(q)])
    /\ UNCHANGED <<baseURL, WG_NATS, client, cancelled>>

\* c.client.Run(ctx, req, &resp): one HTTP POST of the request.
Transmit(w, req) == Append(w, req)

\* The GraphQL request an operation sends: NewRequest(doc), req.Var for each
\* variable, and RunWithContext's Authorization header, to the endpoint the
\* graphql client was built with.
GraphQLRequest(doc, variables) ==
    [kind |-> "graphql",
     url |-> client.v.endpoint,
     auth |-> Bearer(client.v.accessToken),
     query |-> NewRequestQuery(doc),
     vars |-> variables]

\* func (c *Client) RunWithContext(ctx, req): the operation c has built its
\* request and is blocked in the HTTP round trip.  ctx is "background" for
\* c.Run and "caller" for a context the caller passed.
RunWithContext(c, ctx, variables) ==
    /\ ~IsNil(client)
    /\ call' = c @@ [ctx |-> ctx]
    /\ wire' = Transmit(<<>>, GraphQLRequest(Document(c.op), variables))
    /\ reply' = Nil
    /\ ret' = Nil
    /\ pc' = "inflight"
    /\ UNCHANGED <<baseURL, WG_NATS, client, cancelled>>

\* func (c *Client) Run(req): RunWithContext with context.Background().
Run(c, variables) == RunWithContext(c, "background", variables)

\* A REST operation blocked in its HTTP round trip: http.Post, http.Get and
\* http.NewRequest take no context, the request runs under the background one.
HTTPDo(c, req) ==
    /\ call' = c @@ [ctx |-> "background"]
    /\ wire' = Transmit(<<>>, req)
    /\ reply' = Nil
    /\ ret' = Nil
    /\ pc' = "inflight"
    /\ UNCHANGED <<baseURL, WG_NATS, client, cancelled>>

\* What an operation's body does after the round trip.
Return(r) == [kind |-> "return", ret |-> r]
Panic == [kind |-> "panic"]

\* --------------------------------------------------------- argument values

Slugs == {"acme"}
AppNames == {"app1"}
Orgs == {[ID |-> "org1"]}          \* *Organization arguments (never nil here)
Regions == {"", "ord"}
OptStrings == {Nil, Ref(""), Ref("root")}
OptInts == {Nil, Ref(0), Ref(24)}
\* map[string]string arguments of SetSecrets, as sets of <<key, value>>
SecretMaps == {{}, {<<"k1", "v1">>}, {<<"k1", "v1">>, <<"k2", "v2">>}}

\* ---------------------------------------------------------- response values

NodeValues == {"n1", "n2"}

ListsUpTo(n) == UNION {[1 .. k -> NodeValues] : k \in 0 .. n}

\* The lists a nodes field can hold, in the order the server sent them.
NodeLists == ListsUpTo(MaxNodes)

\* A nullable JSON field over the values S.
Nullable(S) == {Nil} \cup {Ref(x) : x \in S}

\* A {nodes: [...]} wrapper whose Go field is a slice: a null nodes decodes
\* to the nil slice, which is the empty list.
SliceWrappers == {[nodes |-> l] : l \in NodeLists}

\* A {nodes: [...]} wrapper whose Go field is a pointer to a slice
\* (the operation reads it with *...Nodes); the wrapper itself may be null.
PtrWrappers == Nullable({[nodes |-> n] : n \in Nullable(NodeLists)})

\* Region values: two of them share a code, one has none.
RegionCodes == {"ord", "ams"}
RegionValues ==
    {[Code |-> "ord", Name |-> "Chicago"], [Code |-> "ord", Name |-> "Chicago 2"],
     [Code |-> "ams", Name |-> "Amsterdam"], [Code |-> "", Name |-> "Nowhere"]}
RegionLists == UNION {[1 .. k -> RegionValues] : k \in 0 .. MaxNodes}

\* The decoded envelope (Query) an operation can be handed: only the
\* sub-field its document asks for is populated.
DataOf(op) ==
    CASE op \in {"GetOrganizations", "GetApps", "GetAppReleases", "ListBuilds"}
            -> SliceWrappers
      [] op = "GetLoggedCertificates"
            -> {[organization |-> o] : o \in Nullable(SliceWrappers)}
      [] op \in {"GetDNSZones", "GetWireGuardPeers", "GetDelegatedWireGuardTokens"}
            -> {[organization |-> o] :
                    o \in Nullable({[list |-> w] : w \in PtrWrappers})}
      [] op \in {"GetAppSecrets", "ImportDNSRecords", "PlatformRegionsAll",
                 "PlatformVMSizes", "ValidateWireGuardPeers"}
            -> {[items |-> l] : l \in NodeLists}
      [] op \in {"GetDeploymentStatus", "CreateDNSZone",
                 "ClosestWireguardGatewayRegion"}
            -> {[pointer |-> x] : x \in Nullable({"p1", "p2"})}
      [] op = "CreateSignedUrls"
            -> {[getUrl |-> g, putUrl |-> u] : g \in {"", "get"}, u \in {"", "put"}}
      [] op = "GetWireGuardPeerStatus"
            -> {[organization |-> o] :
                    o \in Nullable({[wireGuardPeer |-> w] :
                            w \in Nullable({[gatewayStatus |-> g] :
                                    g \in Nullable({"up"})})})}
      [] op = "GetWireGuardPeer"
            -> {[organization |-> o] :
                    o \in Nullable({[wireGuardPeer |-> w] :
                            w \in Nullable({"w1", "w2"})})}
      [] op = "PlatformRegions"
            -> {[platform |-> [RequestRegion |-> q, Regions |-> l]] :
                    q \in RegionCodes \cup {"", "syd"}, l \in RegionLists}
      [] op = "FindDNSZone"
            -> {[organization |-> o] :
                    o \in Nullable({[dnsZone |-> z] : z \in Nullable({"z1", "z2"})})}
      [] op = "GetDNSRecords"
            -> {[dnsZone |-> z] :
                    z \in Nullable({[records |-> w] : w \in PtrWrappers})}
      [] OTHER -> {[payload |-> x] : x \in {"zero", "p1", "p2"}}

\* What c.client.Run leaves behind: the error it returns and the envelope,
\* which the decoder may have filled (wholly or partly) even when it
\* returns an error from the response's errors array.
GraphQLReplies(op) ==
    {[err |-> e, data |-> d] : e \in {NoError} \cup TransportErrors, d \in DataOf(op)}

\* ------------------------------------------------------- GraphQL operations
\* A slice is the sequence of its elements: the nil slice and the empty slice
\* are both <<>>.  A variable map is a function from its keys to its values.
\* Each operation Op is an action (the body up to the blocking Run) and an
\* operator OpReturn(data, err) (the body after Run returned data, err).

\* func (client *Client) GetOrganizations() ([]Organization, error)
GetOrganizations ==
    /\ pc = "ready"
    /\ Run([op |-> "GetOrganizations"], <<>>)

\* GetOrganizations handing back the envelope's nodes beside the error.
GetOrganizationsReturnsData(data, err) ==
    Return([val |-> data.nodes, err |-> err])

GetOrganizationsReturn(data, err) ==
    IF err # NoError THEN Return([val |-> <<>>, err |-> err])
    ELSE Return([val |-> data.nodes, err |-> NoError])

\* func (c *Client) GetApps() ([]App, error)
GetApps ==
    /\ pc = "ready"
    /\ Run([op |-> "GetApps"], <<>>)

\* GetApps dropping the first node.
GetAppsReturnDropsFirst(data, err) ==
    IF err # NoError THEN Return([val |-> <<>>, err |-> err])
    ELSE Return([val |-> IF data.nodes = <<>> THEN <<>> ELSE Tail(data.nodes),
                 err |-> NoError])

GetAppsReturn(data, err) ==
    IF err # NoError THEN Return([val |-> <<>>, err |-> err])
    ELSE Return([val |-> data.nodes, err |-> NoError])

\* func (c *Client) GetAppReleases(appName string, limit int) ([]Release, error)
GetAppReleases ==
    /\ pc = "ready"
    /\ \E appName \in AppNames, limit \in {0, 25} :
           Run([op |-> "GetAppReleases", appName |-> appName, limit |-> limit],
               [appName |-> appName, limit |-> limit])

GetAppReleasesReturn(data, err) ==
    IF err # NoError THEN Return([val |-> <<>>, err |-> err])
    ELSE Return([val |-> data.nodes, err |-> NoError])

\* func (c *Client) ListBuilds(appName string) ([]Build, error)
ListBuilds ==
    /\ pc = "ready"
    /\ \E appName \in AppNames :
           Run([op |-> "ListBuilds", appName |-> appName], [appName |-> appName])

ListBuildsReturn(data, err) ==
    IF err # NoError THEN Return([val |-> <<>>, err |-> err])
    ELSE Return([val |-> data.nodes, err |-> NoError])

\* The orders in which a range over the map can visit its entries.
RangeOrders(m) ==
    {l \in [1 .. Cardinality(m) -> m] : \A i, j \in DOMAIN l : i # j => l[i] # l[j]}

\* func (c *Client) SetSecrets(appName string, secrets map[string]string)
SetSecrets ==
    /\ pc = "ready"
    /\ \E appName \in AppNames, secrets \in SecretMaps :
           \E order \in RangeOrders(secrets) :
               Run([op |-> "SetSecrets", appName |-> appName, secrets |-> secrets],
                   [input |-> [appId |-> appName,
                               secrets |-> [i \in DOMAIN order |->
                                               [key |-> order[i][1],
                                                value |-> order[i][2]]]]])

SetSecretsReturn(data, err) ==
    IF err # NoError THEN Return([val |-> Nil, err |-> err])
    ELSE Return([val |-> Ref(data.payload), err |-> NoError])

\* func (c *Client) GetDNSZones(slug string) ([]*DNSZone, error)
GetDNSZones ==
    /\ pc = "ready"
    /\ \E slug \in Slugs :
           Run([op |-> "GetDNSZones", slug |-> slug], [slug |-> slug])

\* The accessor with a nil check before the dereference: a null on the way
\* to the nodes gives the empty list.
DerefNodesChecked(data) ==
    IF IsNil(data.organization) THEN Return([val |-> <<>>, err |-> NoError])
    ELSE IF IsNil(data.organization.v.list) THEN Return([val |-> <<>>, err |-> NoError])
    ELSE IF IsNil(data.organization.v.list.v.nodes)
    THEN Return([val |-> <<>>, err |-> NoError])
    ELSE Return([val |-> data.organization.v.list.v.nodes.v, err |-> NoError])

\* *data.Organization.<list>.Nodes: a nil dereference when the organization,
\* the wrapper or the nodes is null.
DerefNodes(data) ==
    IF IsNil(data.organization) THEN Panic
    ELSE IF IsNil(data.organization.v.list) THEN Panic
    ELSE IF IsNil(data.organization.v.list.v.nodes) THEN Panic
    ELSE Return([val |-> data.organization.v.list.v.nodes.v, err |-> NoError])

GetDNSZonesReturn(data, err) ==
    IF err # NoError THEN Return([val |-> <<>>, err |-> err])
    ELSE DerefNodes(data)

\* func (c *Client) FindDNSZone(organizationSlug string, domain string)
FindDNSZone ==
    /\ pc = "ready"
    /\ \E slug \in Slugs, domain \in {"example.com"} :
           Run([op |-> "FindDNSZone", slug |-> slug, domain |-> domain],
               [slug |-> slug, domain |-> domain])

FindDNSZoneReturn(data, err) ==
    IF err # NoError THEN Return([val |-> Nil, err |-> err])
    ELSE IF IsNil(data.organization) \/ IsNil(data.organization.v.dnsZone)
         THEN Return([val |-> Nil, err |-> ErrNotFound])
         ELSE Return([val |-> data.organization.v.dnsZone, err |-> NoError])

\* func (c *Client) DeleteDNSZone(zoneID string) error
DeleteDNSZone ==
    /\ pc = "ready"
    /\ \E zoneID \in {"zone1"} :
           Run([op |-> "DeleteDNSZone", zoneID |-> zoneID],
               [input |-> [dnsZoneId |-> zoneID]])

DeleteDNSZoneReturn(data, err) ==
    IF err # NoError THEN Return([err |-> err])
    ELSE Return([err |-> NoError])

\* func (c *Client) GetDNSRecords(zoneID string) ([]*DNSRecord, error)
GetDNSRecords ==
    /\ pc = "ready"
    /\ \E zoneID \in {"zone1"} :
           Run([op |-> "GetDNSRecords", zoneID |-> zoneID], [zoneId |-> zoneID])

GetDNSRecordsReturn(data, err) ==
    IF err # NoError THEN Return([val |-> <<>>, err |-> err])
    ELSE IF IsNil(data.dnsZone) THEN Return([val |-> <<>>, err |-> ErrNotFound])
    ELSE IF IsNil(data.dnsZone.v.records) THEN Panic
    ELSE IF IsNil(data.dnsZone.v.records.v.nodes) THEN Panic
    ELSE Return([val |-> data.dnsZone.v.records.v.nodes.v, err |-> NoError])

\* func (c *Client) GetWireGuardPeers(ctx, slug string) ([]*WireGuardPeer, error)
GetWireGuardPeers ==
    /\ pc = "ready"
    /\ \E slug \in Slugs :
           RunWithContext([op |-> "GetWireGuardPeers", slug |-> slug], "caller",
                          [slug |-> slug])

GetWireGuardPeersReturn(data, err) ==
    IF err # NoError THEN Return([val |-> <<>>, err |-> err])
    ELSE DerefNodes(data)

\* The flag read as never set.
NatsFlagIgnored == FALSE

\* os.Getenv("WG_NATS") != ""
NatsFlag == WG_NATS # ""

\* The inputs map CreateWireGuardPeer binds to $input.
CreateWireGuardPeerInputs(org, region, name, pubkey) ==
    LET inputs == [organizationId |-> org.ID,
                   name |-> name,
                   pubkey |-> pubkey,
                   nats |-> NatsFlag]
    IN  IF region # "" THEN inputs @@ [region |-> region] ELSE inputs

\* func (c *Client) CreateWireGuardPeer(ctx, org *Organization, region, name,
\* pubkey string) (*CreatedWireGuardPeer, error)
CreateWireGuardPeer ==
    /\ pc = "ready"
    /\ \E org \in Orgs, region \in Regions, name \in {"peer1"}, pubkey \in {"pk1"} :
           RunWithContext([op |-> "CreateWireGuardPeer", org |-> org,
                           region |-> region, name |-> name, pubkey |-> pubkey],
                          "caller",
                          [input |-> CreateWireGuardPeerInputs(org, region, name, pubkey)])

CreateWireGuardPeerReturn(data, err) ==
    IF err # NoError THEN Return([val |-> Nil, err |-> err])
    ELSE Return([val |-> Ref(data.payload), err |-> NoError])

\* func (c *Client) RemoveWireGuardPeer(ctx, org *Organization, name string) error
RemoveWireGuardPeer ==
    /\ pc = "ready"
    /\ \E org \in Orgs, name \in {"peer1"} :
           RunWithContext([op |-> "RemoveWireGuardPeer", org |-> org, name |-> name],
                          "caller",
                          [input |-> [organizationId |-> org.ID, name |-> name]])

RemoveWireGuardPeerReturn(data, err) == Return([err |-> err])

\* func (c *Client) GetLoggedCertificates(ctx, slug string) ([]LoggedCertificate, error)
GetLoggedCertificates ==
    /\ pc = "ready"
    /\ \E slug \in Slugs :
           RunWithContext([op |-> "GetLoggedCertificates", slug |-> slug], "caller",
                          [slug |-> slug])

GetLoggedCertificatesReturn(data, err) ==
    IF err # NoError THEN Return([val |-> <<>>, err |-> err])
    ELSE IF IsNil(data.organization) THEN Panic
    ELSE Return([val |-> data.organization.v.nodes, err |-> NoError])

\* IssueSSHCertificate binding username always, empty when not given.
IssueSSHCertificateInputsAlways(org, email, username, valid_hours) ==
    LET inputs == [organizationId |-> org.ID, email |-> email,
                   username |-> IF IsNil(username) THEN "" ELSE username.v]
    IN  IF ~IsNil(valid_hours)
        THEN inputs @@ [validHours |-> valid_hours.v]
        ELSE inputs

\* The inputs map IssueSSHCertificate binds to $input.
IssueSSHCertificateInputs(org, email, username, valid_hours) ==
    LET inputs == [organizationId |-> org.ID, email |-> email]
        withUser == IF ~IsNil(username)
                    THEN inputs @@ [username |-> username.v]
                    ELSE inputs
    IN  IF ~IsNil(valid_hours)
        THEN withUser @@ [validHours |-> valid_hours.v]
        ELSE withUser

\* func (c *Client) IssueSSHCertificate(ctx, org *Organization, email string,
\* username *string, valid_hours *int) (*IssuedCertificate, error)
IssueSSHCertificate ==
    /\ pc = "ready"
    /\ \E org \in Orgs, email \in {"a@b.c"}, username \in OptStrings,
          valid_hours \in OptInts :
           RunWithContext([op |-> "IssueSSHCertificate", org |-> org, email |-> email,
                           username |-> username, valid_hours |-> valid_hours],
                          "caller",
                          [input |-> IssueSSHCertificateInputs(org, email, username,
                                                               valid_hours)])

IssueSSHCertificateReturn(data, err) ==
    IF err # NoError THEN Return([val |-> Nil, err |-> err])
    ELSE Return([val |-> Ref(data.payload), err |-> NoError])

\* func (c *Client) GetCurrentUser() (*User, error)
GetCurrentUser ==
    /\ pc = "ready"
    /\ Run([op |-> "GetCurrentUser"],
           <<>>)

GetCurrentUserReturn(data, err) ==
    IF err # NoError THEN Return([val |-> Nil, err |-> err])
    ELSE Return([val |-> Ref(data.payload), err |-> NoError])

\* func (client *Client) DeployImage(appName, imageTag string) (*Release, error)
DeployImage ==
    /\ pc = "ready"
    /\ \E appName \in AppNames, imageTag \in {"img:1"} :
           Run([op |-> "DeployImage", appName |-> appName, imageTag |-> imageTag],
               [input |-> [appId |-> appName, image |-> imageTag]])

DeployImageReturn(data, err) ==
    IF err # NoError THEN Return([val |-> Nil, err |-> err])
    ELSE Return([val |-> Ref(data.payload), err |-> NoError])

\* func (client *Client) DeployImage(input DeployImageInput) (*Release, error),
\* the variant taking the input structure
DeployImageFromInput ==
    /\ pc = "ready"
    /\ \E input \in {[appId |-> "app1", image |-> "img:1"]} :
           Run([op |-> "DeployImageFromInput", input |-> input],
               [input |-> input])

DeployImageFromInputReturn(data, err) ==
    IF err # NoError THEN Return([val |-> Nil, err |-> err])
    ELSE Return([val |-> Ref(data.payload), err |-> NoError])

\* func (c *Client) GetApp(appName string) (*App, error)
GetApp ==
    /\ pc = "ready"
    /\ \E appName \in AppNames :
           Run([op |-> "GetApp", appName |-> appName],
               [appName |-> appName])

GetAppReturn(data, err) ==
    IF err # NoError THEN Return([val |-> Nil, err |-> err])
    ELSE Return([val |-> Ref(data.payload), err |-> NoError])

\* func (c *Client) UnsetSecrets(appName string, keys []string) (*Release, error)
UnsetSecrets ==
    /\ pc = "ready"
    /\ \E appName \in AppNames, keys \in {<<>>, <<"k1", "k2">>} :
           Run([op |-> "UnsetSecrets", appName |-> appName, keys |-> keys],
               [input |-> [appId |-> appName, keys |-> keys]])

UnsetSecretsReturn(data, err) ==
    IF err # NoError THEN Return([val |-> Nil, err |-> err])
    ELSE Return([val |-> Ref(data.payload), err |-> NoError])

\* func (c *Client) GetAppSecrets(appName string) ([]Secret, error)
GetAppSecrets ==
    /\ pc = "ready"
    /\ \E appName \in AppNames :
           Run([op |-> "GetAppSecrets", appName |-> appName],
               [appName |-> appName])

GetAppSecretsReturn(data, err) ==
    IF err # NoError THEN Return([val |-> <<>>, err |-> err])
    ELSE Return([val |-> data.items, err |-> NoError])

\* func (c *Client) CreateApp(name string, orgId string) (*App, error)
CreateApp ==
    /\ pc = "ready"
    /\ \E name \in {"myapp"}, orgId \in {"org1"} :
           Run([op |-> "CreateApp", name |-> name, orgId |-> orgId],
               [input |-> [name |-> name, runtime |-> "FIRECRACKER",
                          organizationId |-> orgId]])

CreateAppReturn(data, err) ==
    IF err # NoError THEN Return([val |-> Nil, err |-> err])
    ELSE Return([val |-> Ref(data.payload), err |-> NoError])

\* func (c *Client) GetAppWithTasks(appName string) (*App, error)
GetAppWithTasks ==
    /\ pc = "ready"
    /\ \E appName \in AppNames :
           Run([op |-> "GetAppWithTasks", appName |-> appName],
               [appName |-> appName])

GetAppWithTasksReturn(data, err) ==
    IF err # NoError THEN Return([val |-> Nil, err |-> err])
    ELSE Return([val |-> Ref(data.payload), err |-> NoError])

\* func (c *Client) CreateSignedUrls(appId string, filename string)
\* (getUrl string, putUrl string, err error)
CreateSignedUrls ==
    /\ pc = "ready"
    /\ \E appId \in {"app1"}, filename \in {"f.tgz"} :
           Run([op |-> "CreateSignedUrls", appId |-> appId, filename |-> filename],
               [appId |-> appId, filename |-> filename])

CreateSignedUrlsReturn(data, err) ==
    IF err # NoError THEN Return([getUrl |-> "", putUrl |-> "", err |-> err])
    ELSE Return([getUrl |-> data.getUrl, putUrl |-> data.putUrl, err |-> NoError])

\* func (c *Client) CreateBuild(appId string, sourceUrl, sourceType string) (*Build, error)
CreateBuild ==
    /\ pc = "ready"
    /\ \E appId \in {"app1"}, sourceUrl \in {"s3://x"}, sourceType \in {"targz"} :
           Run([op |-> "CreateBuild", appId |-> appId, sourceUrl |-> sourceUrl, sourceType |-> sourceType],
               [appId |-> appId, sourceUrl |-> sourceUrl, sourceType |-> sourceType])

CreateBuildReturn(data, err) ==
    IF err # NoError THEN Return([val |-> Nil, err |-> err])
    ELSE Return([val |-> Ref(data.payload), err |-> NoError])

\* func (c *Client) GetBuild(buildId string) (*Build, error)
GetBuild ==
    /\ pc = "ready"
    /\ \E buildId \in {"b1"} :
           Run([op |-> "GetBuild", buildId |-> buildId],
               [id |-> buildId])

GetBuildReturn(data, err) ==
    IF err # NoError THEN Return([val |-> Nil, err |-> err])
    ELSE Return([val |-> Ref(data.payload), err |-> NoError])

\* func (c *Client) GetDeploymentStatus(appName string, deploymentID string)
\* (*DeploymentStatus, error): data.App.DeploymentStatus is returned as it is
GetDeploymentStatus ==
    /\ pc = "ready"
    /\ \E appName \in AppNames, deploymentID \in {"d1"} :
           Run([op |-> "GetDeploymentStatus", appName |-> appName, deploymentID |-> deploymentID],
               [appName |-> appName, deploymentId |-> deploymentID])

GetDeploymentStatusReturn(data, err) ==
    IF err # NoError THEN Return([val |-> Nil, err |-> err])
    ELSE Return([val |-> data.pointer, err |-> NoError])

\* func (c *Client) CreateDNSZone(organizationID string, domain string) (*DNSZone, error):
\* data.CreateDnsZone.Zone is returned as it is
CreateDNSZone ==
    /\ pc = "ready"
    /\ \E organizationID \in {"org1"}, domain \in {"example.com"} :
           Run([op |-> "CreateDNSZone", organizationID |-> organizationID, domain |-> domain],
               [input |-> [organizationId |-> organizationID, domain |-> domain]])

CreateDNSZoneReturn(data, err) ==
    IF err # NoError THEN Return([val |-> Nil, err |-> err])
    ELSE Return([val |-> data.pointer, err |-> NoError])

\* func (c *Client) ExportDNSRecords(zoneID string) (string, error)
ExportDNSRecords ==
    /\ pc = "ready"
    /\ \E zoneID \in {"zone1"} :
           Run([op |-> "ExportDNSRecords", zoneID |-> zoneID],
               [input |-> [dnsZoneId |-> zoneID]])

ExportDNSRecordsReturn(data, err) ==
    IF err # NoError THEN Return([val |-> "", err |-> err])
    ELSE Return([val |-> data.payload, err |-> NoError])

\* func (c *Client) ImportDNSRecords(zoneID string, zonefile string)
\* ([]ImportDnsRecordTypeResult, error)
ImportDNSRecords ==
    /\ pc = "ready"
    /\ \E zoneID \in {"zone1"}, zonefile \in {"zf"} :
           Run([op |-> "ImportDNSRecords", zoneID |-> zoneID, zonefile |-> zonefile],
               [input |-> [dnsZoneId |-> zoneID, zonefile |-> zonefile]])

ImportDNSRecordsReturn(data, err) ==
    IF err # NoError THEN Return([val |-> <<>>, err |-> err])
    ELSE Return([val |-> data.items, err |-> NoError])

\* func (c *Client) PlatformRegionsAll() ([]Region, error)
PlatformRegionsAll ==
    /\ pc = "ready"
    /\ Run([op |-> "PlatformRegionsAll"],
           <<>>)

PlatformRegionsAllReturn(data, err) ==
    IF err # NoError THEN Return([val |-> <<>>, err |-> err])
    ELSE Return([val |-> data.items, err |-> NoError])

\* func (c *Client) PlatformVMSizes() ([]VMSize, error)
PlatformVMSizes ==
    /\ pc = "ready"
    /\ Run([op |-> "PlatformVMSizes"],
           <<>>)

PlatformVMSizesReturn(data, err) ==
    IF err # NoError THEN Return([val |-> <<>>, err |-> err])
    ELSE Return([val |-> data.items, err |-> NoError])

\* func (c *Client) GetWireGuardPeerStatus(ctx, slug, name string)
\* (*WireGuardPeerStatus, error): data.Organization.WireGuardPeer.GatewayStatus
GetWireGuardPeerStatus ==
    /\ pc = "ready"
    /\ \E slug \in Slugs, name \in {"peer1"} :
           RunWithContext([op |-> "GetWireGuardPeerStatus", slug |-> slug, name |-> name], "caller",
               [slug |-> slug, name |-> name])

GetWireGuardPeerStatusReturn(data, err) ==
    IF err # NoError THEN Return([val |-> Nil, err |-> err])
    ELSE IF IsNil(data.organization) THEN Panic
    ELSE IF IsNil(data.organization.v.wireGuardPeer) THEN Panic
    ELSE Return([val |-> data.organization.v.wireGuardPeer.v.gatewayStatus,
                 err |-> NoError])

\* func (c *Client) GetWireGuardPeer(ctx, slug, name string) (*WireGuardPeer, error)
GetWireGuardPeer ==
    /\ pc = "ready"
    /\ \E slug \in Slugs, name \in {"peer1"} :
           RunWithContext([op |-> "GetWireGuardPeer", slug |-> slug, name |-> name], "caller",
               [slug |-> slug, name |-> name])

GetWireGuardPeerReturn(data, err) ==
    IF err # NoError THEN Return([val |-> Nil, err |-> err])
    ELSE IF IsNil(data.organization) THEN Panic
    ELSE Return([val |-> data.organization.v.wireGuardPeer, err |-> NoError])

\* func (c *Client) CreateDelegatedWireGuardToken(ctx, org *Organization,
\* name string) (*DelegatedWireGuardToken, error)
CreateDelegatedWireGuardToken ==
    /\ pc = "ready"
    /\ \E org \in Orgs, name \in {"tok"} :
           RunWithContext([op |-> "CreateDelegatedWireGuardToken", org |-> org, name |-> name], "caller",
               [input |-> [organizationId |-> org.ID, name |-> name]])

CreateDelegatedWireGuardTokenReturn(data, err) ==
    IF err # NoError THEN Return([val |-> Nil, err |-> err])
    ELSE Return([val |-> Ref(data.payload), err |-> NoError])

\* func (c *Client) GetDelegatedWireGuardTokens(ctx, slug string)
\* ([]*DelegatedWireGuardTokenHandle, error)
GetDelegatedWireGuardTokens ==
    /\ pc = "ready"
    /\ \E slug \in Slugs :
           RunWithContext([op |-> "GetDelegatedWireGuardTokens", slug |-> slug], "caller",
               [slug |-> slug])

GetDelegatedWireGuardTokensReturn(data, err) ==
    IF err # NoError THEN Return([val |-> <<>>, err |-> err])
    ELSE DerefNodes(data)

\* func (c *Client) ClosestWireguardGatewayRegion(ctx) (*Region, error):
\* data.NearestRegion is returned as it is
ClosestWireguardGatewayRegion ==
    /\ pc = "ready"
    /\ RunWithContext([op |-> "ClosestWireguardGatewayRegion"], "caller",
           <<>>)

ClosestWireguardGatewayRegionReturn(data, err) ==
    IF err # NoError THEN Return([val |-> Nil, err |-> err])
    ELSE Return([val |-> data.pointer, err |-> NoError])

\* func (c *Client) ValidateWireGuardPeers(ctx, peerIPs []string)
\* (invalid []string, err error)
ValidateWireGuardPeers ==
    /\ pc = "ready"
    /\ \E peerIPs \in {<<>>, <<"fdaa::1">>} :
           RunWithContext([op |-> "ValidateWireGuardPeers", peerIPs |-> peerIPs], "caller",
               [input |-> [peerIps |-> peerIPs]])

ValidateWireGuardPeersReturn(data, err) ==
    IF err # NoError THEN Return([val |-> <<>>, err |-> err])
    ELSE Return([val |-> data.items, err |-> NoError])

\* func (c *Client) EstablishSSHKey(ctx, org *Organization, override bool)
\* (*SSHCertificate, error)
EstablishSSHKey ==
    /\ pc = "ready"
    /\ \E org \in Orgs, override \in BOOLEAN :
           RunWithContext([op |-> "EstablishSSHKey", org |-> org, override |-> override], "caller",
               [input |-> [organizationId |-> org.ID, override |-> override]])

EstablishSSHKeyReturn(data, err) ==
    IF err # NoError THEN Return([val |-> Nil, err |-> err])
    ELSE Return([val |-> Ref(data.payload), err |-> NoError])

\* func (client *Client) GetConfig(ctx, appName string) (*AppConfig, error)
GetConfig ==
    /\ pc = "ready"
    /\ \E appName \in AppNames :
           RunWithContext([op |-> "GetConfig", appName |-> appName], "caller",
               [appName |-> appName])

GetConfigReturn(data, err) ==
    IF err # NoError THEN Return([val |-> Nil, err |-> err])
    ELSE Return([val |-> Ref(data.payload), err |-> NoError])

\* func (client *Client) ParseConfig(ctx, appName string, definition Definition)
\* (*AppConfig, error)
ParseConfig ==
    /\ pc = "ready"
    /\ \E appName \in AppNames, definition \in {"def1"} :
           RunWithContext([op |-> "ParseConfig", appName |-> appName, definition |-> definition], "caller",
               [appName |-> appName, definition |-> definition])

ParseConfigReturn(data, err) ==
    IF err # NoError THEN Return([val |-> Nil, err |-> err])
    ELSE Return([val |-> Ref(data.payload), err |-> NoError])

\* func (client *Client) ValidateConfig(ctx, appName string, definition Definition)
\* (*AppConfig, error): appName is not bound
ValidateConfig ==
    /\ pc = "ready"
    /\ \E appName \in AppNames, definition \in {"def1"} :
           RunWithContext([op |-> "ValidateConfig", appName |-> appName, definition |-> definition], "caller",
               [definition |-> definition])

ValidateConfigReturn(data, err) ==
    IF err # NoError THEN Return([val |-> Nil, err |-> err])
    ELSE Return([val |-> Ref(data.payload), err |-> NoError])

\* The input with two independent tests: a token that is supplied is sent
\* beside the name.
DeleteDelegatedWireGuardTokenInputBoth(org, name, token) ==
    LET input == [organizationId |-> org.ID]
        named == IF ~IsNil(name) THEN input @@ [name |-> name.v] ELSE input
    IN  IF ~IsNil(token) THEN named @@ [token |-> token.v] ELSE named

\* func (c *Client) DeleteDelegatedWireGuardToken(ctx, org *Organization,
\* name, token *string) error: the input map of the mutation.
DeleteDelegatedWireGuardTokenInput(org, name, token) ==
    LET input == [organizationId |-> org.ID] IN
    IF ~IsNil(name) THEN input @@ [name |-> name.v]
    ELSE input @@ [token |-> token.v]

\* With name and token both nil, *token is a nil dereference: the call
\* crashes before it builds a request.
DeleteDelegatedWireGuardToken ==
    /\ pc = "ready"
    /\ ~IsNil(client)
    /\ \E org \in Orgs, name \in OptStrings, token \in OptStrings :
           LET c == [op |-> "DeleteDelegatedWireGuardToken", org |-> org,
                     name |-> name, token |-> token] IN
           IF IsNil(name) /\ IsNil(token)
           THEN /\ call' = c @@ [ctx |-> "caller"]
                /\ wire' = <<>>
                /\ reply' = Nil
                /\ ret' = Nil
                /\ pc' = "panicked"
                /\ UNCHANGED <<baseURL, WG_NATS, client, cancelled>>
           ELSE RunWithContext(c, "caller",
                    [input |-> DeleteDelegatedWireGuardTokenInput(org, name, token)])

DeleteDelegatedWireGuardTokenReturn(data, err) == Return([err |-> err])

\* The loop without its break: the last region whose Code is requestRegion.
RECURSIVE LastRegionWithCode(_, _, _)
LastRegionWithCode(regions, code, i) ==
    IF i > Len(regions) THEN Nil
    ELSE LET later == LastRegionWithCode(regions, code, i + 1) IN
         IF ~IsNil(later) THEN later
         ELSE IF regions[i].Code = code THEN Ref(regions[i])
         ELSE Nil

\* The loop of PlatformRegions over regions[i ..]: a pointer to a copy of the
\* first region whose Code is requestRegion, nil when there is none.
RECURSIVE FirstRegionWithCode(_, _, _)
FirstRegionWithCode(regions, code, i) ==
    IF i > Len(regions) THEN Nil
    ELSE IF regions[i].Code = code THEN Ref(regions[i])
    ELSE FirstRegionWithCode(regions, code, i + 1)

\* func (c *Client) PlatformRegions() ([]Region, *Region, error)
PlatformRegions ==
    /\ pc = "ready"
    /\ Run([op |-> "PlatformRegions"], <<>>)

PlatformRegionsReturn(data, err) ==
    IF err # NoError
    THEN Return([regions |-> <<>>, requestRegion |-> Nil, err |-> err])
    ELSE LET requestRegion ==
                 IF data.platform.RequestRegion # ""
                 THEN FirstRegionWithCode(data.platform.Regions,
                                          data.platform.RequestRegion, 1)
                 ELSE Nil
         IN  Return([regions |-> data.platform.Regions,
                     requestRegion |-> requestRegion,
                     err |-> NoError])

\* -------------------------------------------------------- REST operations

\* Status codes a response handed to the caller can carry (redirects the
\* HTTP client follows and interim 1xx answers never reach the caller).
StatusCodes == {200, 201, 204, 300, 304, 400, 401, 404, 422, 499, 500, 503, 599}

\* An HTTP exchange: a transport error and no response, or a response with
\* its status and decoded body.
HTTPReplies(bodies) ==
    {[err |-> e] : e \in TransportErrors}
        \cup {[err |-> NoError, status |-> st, body |-> b] :
                  st \in StatusCodes, b \in bodies}

\* Session bodies: undecodable or without the token (Nil), or
\* data.attributes.access_token.
SessionBodies == Nullable({"", "tok1"})

\* func GetAccessToken(email, password, otp string) (string, error);
\* decoded records whether json.NewDecoder(resp.Body).Decode was reached.
GetAccessToken ==
    /\ pc = "ready"
    /\ \E email \in {"a@b.c"}, password \in {"pw"}, otp \in {"", "123456"} :
           HTTPDo([op |-> "GetAccessToken", email |-> email, password |-> password,
                   otp |-> otp],
                  [kind |-> "POST",
                   url |-> URL(baseURL, "/api/v1/sessions"),
                   auth |-> Nil,
                   body |-> [data |-> [attributes |-> [email |-> email,
                                                       password |-> password,
                                                       otp |-> otp]]]])

GetAccessTokenReturn(r) ==
    IF r.err # NoError
    THEN Return([val |-> "", err |-> r.err, decoded |-> FALSE])
    ELSE IF r.status >= 500
    THEN Return([val |-> "", err |-> ErrServer, decoded |-> FALSE])
    ELSE IF r.status >= 400
    THEN Return([val |-> "", err |-> ErrCredentials, decoded |-> FALSE])
    ELSE Return([val |-> IF IsNil(r.body) THEN "" ELSE r.body.v,
                 err |-> NoError,
                 decoded |-> TRUE])

\* Log bodies: the entries' attributes and meta.next_token.
LogBodies == {[data |-> l, next_token |-> t] : l \in NodeLists, t \in {"", "tok2"}}

\* data.Encode(): the query string's parameters.
LogsQuery(nextToken, region, instanceId) ==
    LET q0 == [next_token |-> nextToken]
        q1 == IF instanceId # "" THEN q0 @@ [instance |-> instanceId] ELSE q0
    IN  IF region # "" THEN q1 @@ [region |-> region] ELSE q1

\* func (c *Client) GetAppLogs(appName, nextToken, region, instanceId string)
\* ([]LogEntry, string, error)
GetAppLogs ==
    /\ pc = "ready"
    /\ ~IsNil(client)
    /\ \E appName \in AppNames, nextToken \in {""}, region \in Regions,
          instanceId \in {"", "i1"} :
           HTTPDo([op |-> "GetAppLogs", appName |-> appName, nextToken |-> nextToken,
                   region |-> region, instanceId |-> instanceId],
                  [kind |-> "GET",
                   url |-> URL(baseURL, <<"/api/v1/apps", appName, "logs",
                                          LogsQuery(nextToken, region, instanceId)>>),
                   auth |-> Bearer(client.v.accessToken)])

GetAppLogsReturn(r) ==
    IF r.err # NoError THEN Return([val |-> <<>>, next |-> "", err |-> r.err])
    ELSE IF r.status # 200
         THEN Return([val |-> <<>>, next |-> "", err |-> ErrFromResp])
         ELSE Return([val |-> r.body.data, next |-> r.body.next_token,
                      err |-> NoError])

\* ------------------------------------------------------------ the round trip

\* CLISessionAuth bodies: undecodable (Nil), a session still without its
\* token, a session with it.
CLISessionBodies ==
    Nullable({[ID |-> "s1", AuthURL |-> "auth", AccessToken |-> t] : t \in {"", "tok1"}})

\* var result CLISessionAuth: the zero value; Decode leaves it so on failure.
ZeroCLISessionAuth == [ID |-> "", AuthURL |-> "", AccessToken |-> ""]

DecodeCLISessionAuth(body) == IF IsNil(body) THEN ZeroCLISessionAuth ELSE body.v

\* func StartCLISessionWebAuth(machineName string) (CLISessionAuth, error)
StartCLISessionWebAuth ==
    /\ pc = "ready"
    /\ \E machineName \in {"host1"} :
           HTTPDo([op |-> "StartCLISessionWebAuth", machineName |-> machineName],
                  [kind |-> "POST",
                   url |-> URL(baseURL, "/api/v1/cli_sessions"),
                   auth |-> Nil,
                   body |-> [name |-> machineName]])

StartCLISessionWebAuthReturn(r) ==
    IF r.err # NoError THEN Return([val |-> ZeroCLISessionAuth, err |-> r.err])
    ELSE IF r.status # 201 THEN Return([val |-> ZeroCLISessionAuth, err |-> ErrUnknown])
    ELSE Return([val |-> DecodeCLISessionAuth(r.body), err |-> NoError])

\* func GetAccessTokenForCLISession(id string) (CLISessionAuth, error)
GetAccessTokenForCLISession ==
    /\ pc = "ready"
    /\ \E id \in {"s1"} :
           HTTPDo([op |-> "GetAccessTokenForCLISession", id |-> id],
                  [kind |-> "GET",
                   url |-> URL(baseURL, <<"/api/v1/cli_sessions/", id>>),
                   auth |-> Nil])

\* GetAccessTokenForCLISession without its test of status 404.
GetAccessTokenForCLISessionReturnNo404(r) ==
    IF r.err # NoError THEN Return([val |-> ZeroCLISessionAuth, err |-> r.err])
    ELSE IF r.status # 200 THEN Return([val |-> ZeroCLISessionAuth, err |-> ErrUnknown])
    ELSE Return([val |-> DecodeCLISessionAuth(r.body), err |-> NoError])

\* GetAccessTokenForCLISession refusing a session that has no token yet.
GetAccessTokenForCLISessionReturnPending(r) ==
    IF r.err # NoError THEN Return([val |-> ZeroCLISessionAuth, err |-> r.err])
    ELSE IF r.status = 404 THEN Return([val |-> ZeroCLISessionAuth, err |-> ErrNotFound])
    ELSE IF r.status # 200 THEN Return([val |-> ZeroCLISessionAuth, err |-> ErrUnknown])
    ELSE IF DecodeCLISessionAuth(r.body).AccessToken = ""
    THEN Return([val |-> ZeroCLISessionAuth, err |-> ErrUnknown])
    ELSE Return([val |-> DecodeCLISessionAuth(r.body), err |-> NoError])

GetAccessTokenForCLISessionReturn(r) ==
    IF r.err # NoError THEN Return([val |-> ZeroCLISessionAuth, err |-> r.err])
    ELSE IF r.status = 404 THEN Return([val |-> ZeroCLISessionAuth, err |-> ErrNotFound])
    ELSE IF r.status # 200 THEN Return([val |-> ZeroCLISessionAuth, err |-> ErrUnknown])
    ELSE Return([val |-> DecodeCLISessionAuth(r.body), err |-> NoError])

RESTOps ==
    {"GetAccessToken", "GetAppLogs", "StartCLISessionWebAuth",
     "GetAccessTokenForCLISession"}

\* The answers the server (or the transport) can give an operation.
RepliesOf(op) ==
    CASE op = "GetAccessToken" -> HTTPReplies(SessionBodies)
      [] op = "GetAppLogs" -> HTTPReplies(LogBodies)
      [] op \in {"StartCLISessionWebAuth", "GetAccessTokenForCLISession"}
            -> HTTPReplies(CLISessionBodies)
      [] OTHER -> GraphQLReplies(op)

\* RunWithContext handing the transport the background context in place of
\* ctx.
AbortedIgnored(c) == FALSE

\* The request of c.client.Run(ctx, req, &resp) is bound to ctx: once ctx is
\* done the round trip is aborted and Run returns ctx's error, the envelope
\* left as it was.  Only the context the request runs under counts.
Aborted(c) == c.ctx = "caller" /\ cancelled

AbortedReplies(op) == {[err |-> ErrCanceled, data |-> d] : d \in DataOf(op)}

\* The rest of the operation's body, given the answer r.
Outcome(op, r) ==
    CASE op = "GetOrganizations" -> GetOrganizationsReturn(r.data, r.err)
      [] op = "GetApps" -> GetAppsReturn(r.data, r.err)
      [] op = "GetAppReleases" -> GetAppReleasesReturn(r.data, r.err)
      [] op = "ListBuilds" -> ListBuildsReturn(r.data, r.err)
      [] op = "SetSecrets" -> SetSecretsReturn(r.data, r.err)
      [] op = "GetDNSZones" -> GetDNSZonesReturn(r.data, r.err)
      [] op = "FindDNSZone" -> FindDNSZoneReturn(r.data, r.err)
      [] op = "DeleteDNSZone" -> DeleteDNSZoneReturn(r.data, r.err)
      [] op = "GetDNSRecords" -> GetDNSRecordsReturn(r.data, r.err)
      [] op = "GetWireGuardPeers" -> GetWireGuardPeersReturn(r.data, r.err)
      [] op = "CreateWireGuardPeer" -> CreateWireGuardPeerReturn(r.data, r.err)
      [] op = "RemoveWireGuardPeer" -> RemoveWireGuardPeerReturn(r.data, r.err)
      [] op = "GetLoggedCertificates" -> GetLoggedCertificatesReturn(r.data, r.err)
      [] op = "IssueSSHCertificate" -> IssueSSHCertificateReturn(r.data, r.err)
      [] op = "GetCurrentUser" -> GetCurrentUserReturn(r.data, r.err)
      [] op = "DeployImage" -> DeployImageReturn(r.data, r.err)
      [] op = "DeployImageFromInput" -> DeployImageFromInputReturn(r.data, r.err)
      [] op = "GetApp" -> GetAppReturn(r.data, r.err)
      [] op = "UnsetSecrets" -> UnsetSecretsReturn(r.data, r.err)
      [] op = "GetAppSecrets" -> GetAppSecretsReturn(r.data, r.err)
      [] op = "CreateApp" -> CreateAppReturn(r.data, r.err)
      [] op = "GetAppWithTasks" -> GetAppWithTasksReturn(r.data, r.err)
      [] op = "CreateSignedUrls" -> CreateSignedUrlsReturn(r.data, r.err)
      [] op = "CreateBuild" -> CreateBuildReturn(r.data, r.err)
      [] op = "GetBuild" -> GetBuildReturn(r.data, r.err)
      [] op = "GetDeploymentStatus" -> GetDeploymentStatusReturn(r.data, r.err)
      [] op = "CreateDNSZone" -> CreateDNSZoneReturn(r.data, r.err)
      [] op = "ExportDNSRecords" -> ExportDNSRecordsReturn(r.data, r.err)
      [] op = "ImportDNSRecords" -> ImportDNSRecordsReturn(r.data, r.err)
      [] op = "PlatformRegionsAll" -> PlatformRegionsAllReturn(r.data, r.err)
      [] op = "PlatformVMSizes" -> PlatformVMSizesReturn(r.data, r.err)
      [] op = "GetWireGuardPeerStatus" -> GetWireGuardPeerStatusReturn(r.data, r.err)
      [] op = "GetWireGuardPeer" -> GetWireGuardPeerReturn(r.data, r.err)
      [] op = "CreateDelegatedWireGuardToken" -> CreateDelegatedWireGuardTokenReturn(r.data, r.err)
      [] op = "GetDelegatedWireGuardTokens" -> GetDelegatedWireGuardTokensReturn(r.data, r.err)
      [] op = "ClosestWireguardGatewayRegion" -> ClosestWireguardGatewayRegionReturn(r.data, r.err)
      [] op = "ValidateWireGuardPeers" -> ValidateWireGuardPeersReturn(r.data, r.err)
      [] op = "EstablishSSHKey" -> EstablishSSHKeyReturn(r.data, r.err)
      [] op = "GetConfig" -> GetConfigReturn(r.data, r.err)
      [] op = "ParseConfig" -> ParseConfigReturn(r.data, r.err)
      [] op = "ValidateConfig" -> ValidateConfigReturn(r.data, r.err)
      [] op = "DeleteDelegatedWireGuardToken" -> DeleteDelegatedWireGuardTokenReturn(r.data, r.err)
      [] op = "PlatformRegions" -> PlatformRegionsReturn(r.data, r.err)
      [] op = "GetAccessToken" -> GetAccessTokenReturn(r)
      [] op = "StartCLISessionWebAuth" -> StartCLISessionWebAuthReturn(r)
      [] op = "GetAccessTokenForCLISession" -> GetAccessTokenForCLISessionReturn(r)
      [] op = "GetAppLogs" -> GetAppLogsReturn(r)

\* An operation that sends its request again when the answer is an error.
AfterReplyRetry(w, r) == IF r.err # NoError THEN Append(w, w[1]) ELSE w

\* The requests on the wire once the answer has been handled: no operation
\* sends again.
AfterReply(w, r) == w

\* The round trip ends: the operation runs to its return (or panics).
Respond ==
    /\ pc = "inflight"
    /\ \E r \in IF Aborted(call) THEN AbortedReplies(call.op) ELSE RepliesOf(call.op) :
           LET o == Outcome(call.op, r) IN
           /\ reply' = Ref(r)
           /\ wire' = AfterReply(wire, r)
           /\ IF o.kind = "panic"
              THEN pc' = "panicked" /\ ret' = Nil
              ELSE pc' = "returned" /\ ret' = Ref(o.ret)
    /\ UNCHANGED <<baseURL, WG_NATS, client, call, cancelled>>

\* The caller takes what the invocation returned; the next call may start.
TakeResult ==
    /\ pc = "returned"
    /\ pc' = "ready"
    /\ call' = NoCall
    /\ wire' = <<>>
    /\ reply' = Nil
    /\ ret' = Nil
    /\ cancelled' = FALSE
    /\ UNCHANGED <<baseURL, WG_NATS, client>>

\* The caller cancels its context while the invocation is blocked in its
\* round trip (each invocation starts with a context that is not cancelled).
Cancel ==
    /\ pc = "inflight"
    /\ ~cancelled
    /\ cancelled' = TRUE
    /\ UNCHANGED <<baseURL, WG_NATS, client, pc, call, wire, reply, ret>>

Next ==
    \/ SetBaseURL
    \/ NewClient
    \/ NewRequest
    \/ GetOrganizations
    \/ GetApps
    \/ GetAppReleases
    \/ ListBuilds
    \/ SetSecrets
    \/ GetDNSZones
    \/ FindDNSZone
    \/ DeleteDNSZone
    \/ GetDNSRecords
    \/ GetWireGuardPeers
    \/ CreateWireGuardPeer
    \/ RemoveWireGuardPeer
    \/ GetLoggedCertificates
    \/ IssueSSHCertificate
    \/ GetCurrentUser
    \/ DeployImage
    \/ DeployImageFromInput
    \/ GetApp
    \/ UnsetSecrets
    \/ GetAppSecrets
    \/ CreateApp
    \/ GetAppWithTasks
    \/ CreateSignedUrls
    \/ CreateBuild
    \/ GetBuild
    \/ GetDeploymentStatus
    \/ CreateDNSZone
    \/ ExportDNSRecords
    \/ ImportDNSRecords
    \/ PlatformRegionsAll
    \/ PlatformVMSizes
    \/ GetWireGuardPeerStatus
    \/ GetWireGuardPeer
    \/ CreateDelegatedWireGuardToken
    \/ GetDelegatedWireGuardTokens
    \/ ClosestWireguardGatewayRegion
    \/ ValidateWireGuardPeers
    \/ EstablishSSHKey
    \/ GetConfig
    \/ ParseConfig
    \/ ValidateConfig
    \/ DeleteDelegatedWireGuardToken
    \/ PlatformRegions
    \/ GetAccessToken
    \/ GetAppLogs
    \/ StartCLISessionWebAuth
    \/ GetAccessTokenForCLISession
    \/ Cancel
    \/ Respond
    \/ TakeResult

Spec == Init /\ [][Next]_vars

\* The transport answers every request in the end: with the server's answer,
\* a network error, or the abort of a cancelled context.
FairSpec == Spec /\ WF_vars(Respond)

\* ------------------------------------------------------------- properties

Returned(op) == pc = "returned" /\ call.op = op
\* The invocation is past its round trip (it returned or panicked).
Answered(op) == pc \in {"returned", "panicked"} /\ call.op = op /\ ~IsNil(reply)

\* Operations that return a slice, a pointer, or only an error.
SliceOps ==
    {"GetOrganizations", "GetApps", "GetAppReleases", "ListBuilds", "GetDNSZones",
     "GetDNSRecords", "GetWireGuardPeers", "GetLoggedCertificates",
     "GetAppSecrets", "ImportDNSRecords", "PlatformRegionsAll", "PlatformVMSizes",
     "ValidateWireGuardPeers", "GetDelegatedWireGuardTokens"}
PointerOps ==
    {"SetSecrets", "FindDNSZone", "CreateWireGuardPeer", "IssueSSHCertificate",
     "GetCurrentUser", "DeployImage", "DeployImageFromInput", "GetApp",
     "UnsetSecrets", "CreateApp", "GetAppWithTasks", "CreateBuild", "GetBuild",
     "GetDeploymentStatus", "CreateDNSZone", "GetWireGuardPeerStatus",
     "GetWireGuardPeer", "CreateDelegatedWireGuardToken",
     "ClosestWireguardGatewayRegion", "EstablishSSHKey", "GetConfig",
     "ParseConfig", "ValidateConfig"}
ErrorOnlyOps == {"DeleteDNSZone", "RemoveWireGuardPeer", "DeleteDelegatedWireGuardToken"}

\* The operations that go through RunWithContext: every resource operation.
GraphQLOps ==
    SliceOps \cup PointerOps \cup ErrorOnlyOps
        \cup {"ExportDNSRecords", "CreateSignedUrls", "PlatformRegions"}

\* C1: NewClient fails with an error and returns no client when the access
\* token is the empty string, and for every non-empty access token returns a
\* client (holding that token) with a nil error.
C1_NewClientRequiresToken ==
    Returned("NewClient") =>
        IF call.accessToken = ""
        THEN ret.v.err # NoError /\ IsNil(ret.v.client)
        ELSE /\ ret.v.err = NoError
             /\ ~IsNil(ret.v.client)
             /\ ret.v.client.v.accessToken = call.accessToken

C1_Witness ==
    /\ Returned("NewClient")
    /\ call.accessToken = ""
    /\ ret.v.err = ErrNoToken

\* C2: for every status code the session endpoint answers GetAccessToken
\* with: 5xx yields the unknown-server error, 4xx yields the
\* credential-mismatch error and the body is not decoded, and the body is
\* decoded (and a token returned with a nil error) for a 2xx status and only
\* for a 2xx status.
C2_StatusMapping ==
    (Returned("GetAccessToken") /\ reply.v.err = NoError) =>
        LET st == reply.v.status IN
        /\ (st >= 500 /\ st <= 599) => ret.v.err = ErrServer /\ ~ret.v.decoded
        /\ (st >= 400 /\ st <= 499) => ret.v.err = ErrCredentials /\ ~ret.v.decoded
        /\ (st >= 200 /\ st <= 299) => ret.v.err = NoError /\ ret.v.decoded
        /\ ret.v.decoded => (st >= 200 /\ st <= 299)

\* What holds of GetAccessToken instead: the body is decoded exactly for the
\* statuses below 400, the 3xx ones included.
C2_DecodesBelow400 ==
    (Returned("GetAccessToken") /\ reply.v.err = NoError) =>
        LET st == reply.v.status IN
        /\ st >= 500 => ret.v.err = ErrServer /\ ~ret.v.decoded
        /\ (st >= 400 /\ st <= 499) => ret.v.err = ErrCredentials /\ ~ret.v.decoded
        /\ st < 400 => ret.v.err = NoError /\ ret.v.decoded

\* C3: for FindDNSZone and GetDNSRecords, after a transport-successful call:
\* when the looked-up field (organization or organization.dnsZone; the
\* dnsZone node) is null the operation returns ErrNotFound and a nil result;
\* when it is present the operation returns with a nil error (FindDNSZone:
\* the zone itself).
C3_NotFoundOrResult ==
    /\ (Answered("FindDNSZone") /\ reply.v.err = NoError) =>
           LET org == reply.v.data.organization IN
           /\ pc = "returned"
           /\ IF IsNil(org) \/ IsNil(org.v.dnsZone)
              THEN ret.v.err = ErrNotFound /\ IsNil(ret.v.val)
              ELSE ret.v.err = NoError /\ ret.v.val = org.v.dnsZone
    /\ (Answered("GetDNSRecords") /\ reply.v.err = NoError) =>
           LET zone == reply.v.data.dnsZone IN
           /\ pc = "returned"
           /\ IF IsNil(zone)
              THEN ret.v.err = ErrNotFound /\ ret.v.val = <<>>
              ELSE ret.v.err = NoError

\* What holds of the two lookups: a null looked-up field always yields
\* ErrNotFound with a nil result, and no return pairs a nil error with
\* anything but the field found.
C3_NullIsNotFound ==
    /\ (Answered("FindDNSZone") /\ reply.v.err = NoError) =>
           LET org == reply.v.data.organization IN
           /\ pc = "returned"
           /\ IF IsNil(org) \/ IsNil(org.v.dnsZone)
              THEN ret.v.err = ErrNotFound /\ IsNil(ret.v.val)
              ELSE ret.v.err = NoError /\ ret.v.val = org.v.dnsZone
    /\ (Answered("GetDNSRecords") /\ reply.v.err = NoError) =>
           LET zone == reply.v.data.dnsZone IN
           /\ IsNil(zone) =>
                  pc = "returned" /\ ret.v.err = ErrNotFound /\ ret.v.val = <<>>
           /\ (pc = "returned" /\ ~IsNil(zone)) =>
                  /\ ret.v.err = NoError
                  /\ ret.v.val = zone.v.records.v.nodes.v

\* The result an operation returns when it has none.
NoResult(op, r) ==
    CASE op \in SliceOps -> r.val = <<>>
      [] op \in PointerOps -> IsNil(r.val)
      [] op \in ErrorOnlyOps -> DOMAIN r = {"err"}
      [] op = "ExportDNSRecords" -> r.val = ""
      [] op = "CreateSignedUrls" -> r.getUrl = "" /\ r.putUrl = ""
      [] op = "PlatformRegions" -> r.regions = <<>> /\ IsNil(r.requestRegion)

\* C4: when the transport client's execute returns an error, the operation
\* returns (it does not panic), its error is that same error, its result is
\* nil or empty whatever the envelope holds, and it has sent one request.
C4_ErrorPropagates ==
    \A op \in GraphQLOps :
        (Answered(op) /\ reply.v.err # NoError) =>
            /\ pc = "returned"
            /\ ret.v.err = reply.v.err
            /\ NoResult(op, ret.v)
            /\ Len(wire) = 1

C4_Witness ==
    /\ Returned("GetOrganizations")
    /\ reply.v.err \in TransportErrors
    /\ reply.v.data.nodes # <<>>
    /\ ret.v.err = reply.v.err
    /\ ret.v.val = <<>>

NetworkOps == GraphQLOps \cup RESTOps

\* The invocation crashed on its own arguments, before building a request
\* (DeleteDelegatedWireGuardToken with neither a name nor a token).
CrashedOnArguments == pc = "panicked" /\ IsNil(reply)

Sent(op) == pc \in {"inflight", "returned", "panicked"} /\ call.op = op

\* C6: the variable map holds an optional parameter's key exactly when the
\* caller provided the parameter, with the value provided: username and
\* validHours of IssueSSHCertificate (provided: a non-nil pointer, also to ""
\* or 0) and region of CreateWireGuardPeer (provided: a non-empty string).
C6_OptionalKeys ==
    /\ Sent("IssueSSHCertificate") =>
           LET input == wire[1].vars.input IN
           /\ ("username" \in DOMAIN input) <=> ~IsNil(call.username)
           /\ ~IsNil(call.username) => input.username = call.username.v
           /\ ("validHours" \in DOMAIN input) <=> ~IsNil(call.valid_hours)
           /\ ~IsNil(call.valid_hours) => input.validHours = call.valid_hours.v
    /\ Sent("CreateWireGuardPeer") =>
           LET input == wire[1].vars.input IN
           /\ ("region" \in DOMAIN input) <=> call.region # ""
           /\ call.region # "" => input.region = call.region

C6_Witness ==
    /\ Sent("IssueSSHCertificate")
    /\ IsNil(call.username)
    /\ call.valid_hours = Ref(24)
    /\ DOMAIN wire[1].vars.input = {"organizationId", "email", "validHours"}

\* The input of CreateWireGuardPeer without its nats entry.
WithoutNats(input) == [k \in DOMAIN input \ {"nats"} |-> input[k]]

\* The entries of CreateWireGuardPeer's input that come from its arguments.
ArgumentInputs ==
    LET required == [organizationId |-> call.org.ID,
                     name |-> call.name,
                     pubkey |-> call.pubkey]
    IN  IF call.region # "" THEN required @@ [region |-> call.region] ELSE required

\* C7 as stated: CreateWireGuardPeer adds the nats variable to the input
\* when WG_NATS is set (non-empty) and does not add it when WG_NATS is
\* unset; nothing else in the input depends on the flag.
C7_NatsAddedOnlyWhenSet ==
    Sent("CreateWireGuardPeer") =>
        LET input == wire[1].vars.input IN
        /\ ("nats" \in DOMAIN input) <=> WG_NATS # ""
        /\ WithoutNats(input) = ArgumentInputs

\* C7 amended: the input of CreateWireGuardPeer always holds the nats
\* variable, true when WG_NATS is set (non-empty) and false when it is
\* unset; nothing else in the input depends on the flag.
C7_NatsAlwaysSent ==
    Sent("CreateWireGuardPeer") =>
        LET input == wire[1].vars.input IN
        /\ "nats" \in DOMAIN input
        /\ input.nats = (WG_NATS # "")
        /\ WithoutNats(input) = ArgumentInputs

C7_Witness ==
    /\ Sent("CreateWireGuardPeer")
    /\ WG_NATS = ""
    /\ "nats" \in DOMAIN wire[1].vars.input
    /\ wire[1].vars.input.nats = FALSE

\* The nodes of the response's wrapper for a list operation: Nil when the
\* response has none (a null on the way to it).
ResponseNodes(op, data) ==
    CASE op \in {"GetOrganizations", "GetApps", "GetAppReleases", "ListBuilds"}
            -> Ref(data.nodes)
      [] op = "GetLoggedCertificates"
            -> IF IsNil(data.organization) THEN Nil
               ELSE Ref(data.organization.v.nodes)
      [] op \in {"GetDNSZones", "GetWireGuardPeers"}
            -> IF IsNil(data.organization) THEN Nil
               ELSE IF IsNil(data.organization.v.list) THEN Nil
               ELSE data.organization.v.list.v.nodes

ListOps ==
    {"GetApps", "GetOrganizations", "GetAppReleases", "ListBuilds", "GetDNSZones",
     "GetWireGuardPeers", "GetLoggedCertificates"}

\* C8: every list-returning operation, on a successful call, returns exactly
\* the response's nodes: whenever the transport succeeds and the response
\* carries a nodes list the operation returns that list (same length, same
\* elements, same order) with a nil error, and it never returns anything
\* else with a nil error.
C8_NodesUnwrapped ==
    \A op \in ListOps :
        (Answered(op) /\ reply.v.err = NoError) =>
            LET nodes == ResponseNodes(op, reply.v.data) IN
            /\ ~IsNil(nodes) =>
                   pc = "returned" /\ ret.v.err = NoError /\ ret.v.val = nodes.v
            /\ pc = "returned" =>
                   ~IsNil(nodes) /\ ret.v.err = NoError /\ ret.v.val = nodes.v

C8_Witness ==
    /\ Returned("GetApps")
    /\ reply.v.err = NoError
    /\ reply.v.data.nodes = <<"n2", "n1">>
    /\ ret.v.val = <<"n2", "n1">>

\* The whitespace the normalisation is stated for: spaces, tabs, newlines.
Whitespace == {SP, HT, LF}

\* The maximal runs of characters outside W, in order.
RECURSIVE TokensFrom(_, _, _)
TokensFrom(q, W, cur) ==
    LET flush == IF cur = <<>> THEN <<>> ELSE <<cur>> IN
    IF q = <<>> THEN flush
    ELSE IF Head(q) \in W
         THEN flush \o TokensFrom(Tail(q), W, <<>>)
         ELSE TokensFrom(Tail(q), W, Append(cur, Head(q)))

Tokens(q, W) == TokensFrom(q, W, <<>>)

\* out is in normalised with respect to the whitespace W.
Normalised(in, out, W) ==
    /\ out # <<>> => out[1] \notin W /\ out[Len(out)] \notin W
    /\ \A i \in 1 .. Len(out) - 1 : ~(out[i] \in W /\ out[i + 1] \in W)
    /\ \A i \in 1 .. Len(out) : out[i] \in W => out[i] = SP
    /\ Tokens(out, W) = Tokens(in, W)
    /\ compactQueryString(out) = out

\* C9: the string NewRequest transmits is the input with surrounding
\* whitespace (spaces, tabs, newlines) trimmed and every internal run of it
\* replaced by one space: no leading or trailing whitespace, no two adjacent
\* whitespace characters, the same sequence of non-whitespace tokens as the
\* input, and unchanged by a second normalisation.
C9_Normalises ==
    /\ Returned("NewRequest") => Normalised(call.q, ret.v.q, Whitespace)
    /\ (call.op \in GraphQLOps /\ Len(wire) >= 1) =>
           Normalised(Document(call.op), wire[1].query, Whitespace)

\* C9 read with every character strings.TrimSpace cuts as whitespace.
C9_NormalisesUnicodeSpace ==
    Returned("NewRequest") => Normalised(call.q, ret.v.q, {c \in Chars : IsSpace(c)})

\* What holds of NewRequest: an input whose space characters are all of
\* the class \s (spaces, tabs, newlines; no '\v', U+0085, U+00A0) is
\* normalised.
C9_NormalisesPerlSpace ==
    /\ (Returned("NewRequest") /\ \A i \in 1 .. Len(call.q) : IsSpace(call.q[i]) => PerlSpace(call.q[i]))
           => Normalised(call.q, ret.v.q, Whitespace)
    /\ (call.op \in GraphQLOps /\ Len(wire) >= 1) =>
           Normalised(Document(call.op), wire[1].query, Whitespace)

\* Operations that are methods of the client.
ClientOps == GraphQLOps \cup {"GetAppLogs"}

\* C10: every request a client sends, GraphQL or GetAppLogs, whatever
\* SetBaseURL calls followed NewClient, carries the access token given at
\* construction and goes to the base URL configured when the client was
\* constructed.
C10_ClientImmutable ==
    (call.op \in ClientOps /\ Len(wire) >= 1) =>
        \A i \in 1 .. Len(wire) :
            /\ wire[i].auth = Bearer(client.v.accessToken)
            /\ wire[i].url.base = client.v.endpoint.base

\* What holds: every request carries the constructed token, and the GraphQL
\* requests go to the endpoint formatted at construction.
C10_TokenAndEndpointKept ==
    (call.op \in ClientOps /\ Len(wire) >= 1) =>
        \A i \in 1 .. Len(wire) :
            /\ wire[i].auth = Bearer(client.v.accessToken)
            /\ call.op \in GraphQLOps => wire[i].url = client.v.endpoint

\* The operations that take the caller's context.Context and hand it to
\* RunWithContext.
ContextOps ==
    {"GetWireGuardPeerStatus", "GetWireGuardPeer", "GetWireGuardPeers",
     "CreateWireGuardPeer", "RemoveWireGuardPeer", "CreateDelegatedWireGuardToken",
     "DeleteDelegatedWireGuardToken", "GetDelegatedWireGuardTokens",
     "ClosestWireguardGatewayRegion", "ValidateWireGuardPeers",
     "GetLoggedCertificates", "EstablishSSHKey", "IssueSSHCertificate",
     "GetConfig", "ParseConfig", "ValidateConfig"}

\* C11 as stated: for every resource operation, once the caller has cancelled
\* its context while the request was in flight, the operation returns the
\* cancellation error and no result.
C11_CancelAborts ==
    \A op \in GraphQLOps :
        (Answered(op) /\ cancelled) =>
            pc = "returned" /\ ret.v.err = ErrCanceled

\* Cancelled in flight, the invocation returns the cancellation error.
C11_AbortedReturns ==
    (pc = "inflight" /\ call.ctx = "caller" /\ cancelled)
        ~> (pc = "returned" /\ call.op \in ContextOps /\ ret.v.err = ErrCanceled)

\* C11: the operations run under the caller's context are exactly those
\* that take one (ContextOps); for these, once the context is cancelled while
\* the request is in flight, the only way on is the abort: the operation
\* returns the cancellation error and no result, whatever the envelope holds,
\* and it does not keep waiting.  The other operations run under the
\* background context.
C11_CallerContextAborts ==
    /\ [](\A op \in NetworkOps :
            Sent(op) => (call.ctx = "caller" <=> op \in ContextOps))
    /\ [](\A op \in ContextOps :
            (Answered(op) /\ cancelled) =>
                /\ pc = "returned"
                /\ ret.v.err = ErrCanceled
                /\ NoResult(op, ret.v))
    /\ C11_AbortedReturns

C11_Witness ==
    /\ Returned("GetWireGuardPeers")
    /\ cancelled
    /\ ~IsNil(reply.v.data.organization)
    /\ ret.v.err = ErrCanceled
    /\ ret.v.val = <<>>

\* C12 as stated: GetAccessTokenForCLISession answers every 5xx status with
\* the unknown-server error, every 4xx status with the not-found error, and
\* every 2xx status with the decoded session body and a nil error.
C12_StatusClasses ==
    (Returned("GetAccessTokenForCLISession") /\ reply.v.err = NoError) =>
        LET st == reply.v.status IN
        /\ (st >= 500 /\ st <= 599) => ret.v.err = ErrUnknown
        /\ (st >= 400 /\ st <= 499) => ret.v.err = ErrNotFound
        /\ (st >= 200 /\ st <= 299) =>
               /\ ret.v.err = NoError
               /\ ret.v.val = IF IsNil(reply.v.body) THEN ZeroCLISessionAuth
                              ELSE reply.v.body.v

\* C12: GetAccessTokenForCLISession answers status 404 with the not-found
\* error, every other status than 200 (5xx, the other 4xx, 3xx and the other
\* 2xx) with the unknown error, both with the zero session, and status 200
\* with the decoded session body and a nil error; a transport error is
\* returned as it is.
C12_StatusMapping ==
    Returned("GetAccessTokenForCLISession") =>
        IF reply.v.err # NoError
        THEN ret.v.err = reply.v.err /\ ret.v.val = ZeroCLISessionAuth
        ELSE LET st == reply.v.status IN
             /\ st = 404 => ret.v.err = ErrNotFound /\ ret.v.val = ZeroCLISessionAuth
             /\ st \notin {200, 404} =>
                    ret.v.err = ErrUnknown /\ ret.v.val = ZeroCLISessionAuth
             /\ st = 200 =>
                    /\ ret.v.err = NoError
                    /\ ret.v.val = IF IsNil(reply.v.body) THEN ZeroCLISessionAuth
                                   ELSE reply.v.body.v

C12_Witness ==
    /\ Returned("GetAccessTokenForCLISession")
    /\ reply.v.err = NoError
    /\ reply.v.status = 404
    /\ ~IsNil(reply.v.body)
    /\ ret.v.err = ErrNotFound

\* C13 as stated: GetAccessTokenForCLISession keeps requesting while the
\* session's access token is empty, so whenever it returns with a nil error
\* the returned session's AccessToken is not empty.
C13_ReturnsPopulatedToken ==
    (Returned("GetAccessTokenForCLISession") /\ ret.v.err = NoError) =>
        ret.v.val.AccessToken # ""

\* C13: a call of GetAccessTokenForCLISession is one poll: it sends one GET
\* for the session resource of the given id and no other request, and on
\* status 200 it returns, with a nil error, the session the server answered
\* with, its AccessToken empty or not (no session decoded: the zero session).
C13_SinglePoll ==
    LET op == "GetAccessTokenForCLISession" IN
    /\ Sent(op) =>
           /\ Len(wire) = 1
           /\ wire[1].kind = "GET"
           /\ wire[1].url = URL(baseURL, <<"/api/v1/cli_sessions/", call.id>>)
    /\ (Returned(op) /\ reply.v.err = NoError /\ reply.v.status = 200) =>
           /\ ret.v.err = NoError
           /\ ret.v.val.AccessToken =
                  IF IsNil(reply.v.body) THEN "" ELSE reply.v.body.v.AccessToken

C13_Witness ==
    /\ Returned("GetAccessTokenForCLISession")
    /\ reply.v.err = NoError
    /\ reply.v.status = 200
    /\ ~IsNil(reply.v.body)
    /\ ret.v.err = NoError
    /\ ret.v.val.AccessToken = ""
    /\ Len(wire) = 1

\* The response has a null where the accessor dereferences: the
\* organization, the list wrapper or the nodes (for GetDNSRecords, whose
\* zone is checked, the records wrapper or the nodes of a present zone).
NullOnTheWay(op, data) ==
    IF op = "GetDNSRecords"
    THEN /\ ~IsNil(data.dnsZone)
         /\ \/ IsNil(data.dnsZone.v.records)
            \/ IsNil(data.dnsZone.v.records.v.nodes)
    ELSE \/ IsNil(data.organization)
         \/ IsNil(data.organization.v.list)
         \/ IsNil(data.organization.v.list.v.nodes)

NodesAccessors ==
    {"GetWireGuardPeers", "GetDelegatedWireGuardTokens", "GetDNSZones", "GetDNSRecords"}

\* C14: after a transport-successful call of GetWireGuardPeers,
\* GetDelegatedWireGuardTokens, GetDNSZones or GetDNSRecords whose response
\* has a null organization, list wrapper or nodes, the operation has not
\* returned (neither an empty list nor an error): it has crashed on the nil
\* dereference; and it crashes on no other response.
C14_NilNodesCrash ==
    \A op \in NodesAccessors :
        (Answered(op) /\ reply.v.err = NoError) =>
            (pc = "panicked" <=> NullOnTheWay(op, reply.v.data))

C14_Witness ==
    /\ call.op = "GetDelegatedWireGuardTokens"
    /\ pc = "panicked"
    /\ reply.v.err = NoError
    /\ ~IsNil(reply.v.data.organization)
    /\ ~IsNil(reply.v.data.organization.v.list)
    /\ IsNil(reply.v.data.organization.v.list.v.nodes)
    /\ IsNil(ret)

\* C15: on a successful call PlatformRegions returns the response's region
\* list unchanged and a nil error, with a request region that is nil when
\* the response's requestRegion is empty or is no region's code, and
\* otherwise equals the first region of the list whose code is requestRegion.
C15_RequestRegion ==
    (Returned("PlatformRegions") /\ reply.v.err = NoError) =>
        LET regions == reply.v.data.platform.Regions
            code == reply.v.data.platform.RequestRegion
            matches == {i \in 1 .. Len(regions) : regions[i].Code = code}
        IN  /\ ret.v.err = NoError
            /\ ret.v.regions = regions
            /\ IF code = "" \/ matches = {}
               THEN IsNil(ret.v.requestRegion)
               ELSE \E i \in matches :
                        /\ \A j \in matches : i <= j
                        /\ ret.v.requestRegion = Ref(regions[i])

C15_Witness ==
    /\ Returned("PlatformRegions")
    /\ reply.v.err = NoError
    /\ Len(reply.v.data.platform.Regions) = 2
    /\ reply.v.data.platform.Regions[1].Code = "ord"
    /\ reply.v.data.platform.Regions[2].Code = "ord"
    /\ reply.v.data.platform.Regions[1] # reply.v.data.platform.Regions[2]
    /\ reply.v.data.platform.RequestRegion = "ord"
    /\ ret.v.requestRegion = Ref(reply.v.data.platform.Regions[1])

\* C16: every call of DeleteDelegatedWireGuardToken that sends a request
\* sends an input holding organizationId and exactly one of name and token:
\* name, with the given name's value, whenever a name is supplied (a token
\* supplied beside it is left out), and token, with the given token's value,
\* only when no name is supplied; never both, never neither.
C16_NameOrToken ==
    (Sent("DeleteDelegatedWireGuardToken") /\ Len(wire) >= 1) =>
        LET input == wire[1].vars.input IN
        /\ "organizationId" \in DOMAIN input
        /\ input.organizationId = call.org.ID
        /\ ("name" \in DOMAIN input) # ("token" \in DOMAIN input)
        /\ DOMAIN input \subseteq {"organizationId", "name", "token"}
        /\ IF ~IsNil(call.name)
           THEN "name" \in DOMAIN input /\ input.name = call.name.v
           ELSE "token" \in DOMAIN input /\ input.token = call.token.v

C16_Witness ==
    /\ Returned("DeleteDelegatedWireGuardToken")
    /\ ~IsNil(call.name)
    /\ ~IsNil(call.token)
    /\ DOMAIN wire[1].vars.input = {"organizationId", "name"}
    /\ wire[1].vars.input.name = call.name.v

====
